---- MODULE Spec2Model ----
(***************************************************************************)
(* Lector Accessible: the image -> text -> speech pipeline of App.tsx      *)
(* (processImage, playPCMAudio, speakStatus, replayAudio) together with    *)
(* GeminiService (extractText, generateSpeech): specification Spec.        *)
(* SpecDecode runs the PCM decoder of playPCMAudio alone on byte           *)
(* sequences; SpecServer is the POST /api/tts/elevenlabs handler of        *)
(* server.ts.                                                              *)
(*                                                                         *)
(* Strings are sequences of one-character strings.  A localized message is *)
(* a one-element sequence holding the whole message.  The JavaScript null  *)
(* is the reserved value Null.                                             *)
(***************************************************************************)
EXTENDS Naturals, Integers, Sequences, FiniteSets, Bags, TLC

\* ------------------------------------------------------------------ bounds
\* the user opens no file chooser and clicks no replay while this many
\* things are under way: file choosers open, processImage invocations not
\* yet returned, buffer sources still sounding
MaxActive == 2

\* the decoder alone is given payloads of at most this many bytes
MaxBytes == 4

\* the server is sent at most this many requests
MaxRequests == 2

\* ------------------------------------------------------ JavaScript strings
Null == <<"null">>

\* JavaScript truthiness of a (string | null) value
Truthy(s) == s # Null /\ s # <<>>

IsWhiteSpace(c) == c \in {" ", "\t", "\n", "\f", "\r"}

RECURSIVE TrimStart(_)
TrimStart(s) ==
  IF s = <<>> THEN <<>>
  ELSE IF IsWhiteSpace(Head(s)) THEN TrimStart(Tail(s)) ELSE s

RECURSIVE TrimEnd(_)
TrimEnd(s) ==
  IF s = <<>> THEN <<>>
  ELSE IF IsWhiteSpace(s[Len(s)]) THEN TrimEnd(SubSeq(s, 1, Len(s) - 1)) ELSE s

\* String.prototype.trim
Trim(s) == TrimEnd(TrimStart(s))

\* ------------------------------------------------------------ window.atob
B64Alphabet ==
  << "A","B","C","D","E","F","G","H","I","J","K","L","M","N","O","P",
     "Q","R","S","T","U","V","W","X","Y","Z","a","b","c","d","e","f",
     "g","h","i","j","k","l","m","n","o","p","q","r","s","t","u","v",
     "w","x","y","z","0","1","2","3","4","5","6","7","8","9","+","/" >>

IsB64Char(c) == \E i \in 1..Len(B64Alphabet) : B64Alphabet[i] = c

B64Value(c) == (CHOOSE i \in 1..Len(B64Alphabet) : B64Alphabet[i] = c) - 1

StripWhiteSpace(s) == SelectSeq(s, LAMBDA c : ~IsWhiteSpace(c))

\* forgiving-base64: with a length divisible by 4, one or two trailing "=" go
StripPadding(s) ==
  IF Len(s) % 4 = 0 /\ Len(s) > 0 /\ s[Len(s)] = "="
  THEN IF s[Len(s) - 1] = "=" THEN SubSeq(s, 1, Len(s) - 2)
                              ELSE SubSeq(s, 1, Len(s) - 1)
  ELSE s

\* the bytes of a run of sextets (already validated)
RECURSIVE SextetsToBytes(_)
SextetsToBytes(v) ==
  IF Len(v) >= 4 THEN
    LET n == v[1] * 262144 + v[2] * 4096 + v[3] * 64 + v[4]
    IN  << n \div 65536, (n \div 256) % 256, n % 256 >>
          \o SextetsToBytes(SubSeq(v, 5, Len(v)))
  ELSE IF Len(v) = 3 THEN
    LET n == (v[1] * 4096 + v[2] * 64 + v[3]) \div 4
    IN  << n \div 256, n % 256 >>
  ELSE IF Len(v) = 2 THEN
    << (v[1] * 64 + v[2]) \div 16 >>
  ELSE <<>>

\* window.atob(base64Data): the binary string as a sequence of char codes,
\* or a thrown InvalidCharacterError
Atob(base64Data) ==
  LET s == StripPadding(StripWhiteSpace(base64Data))
  IN  IF Len(s) % 4 = 1 \/ \E i \in 1..Len(s) : ~IsB64Char(s[i])
      THEN [ok |-> FALSE, bytes |-> <<>>]
      ELSE [ok |-> TRUE,
            bytes |-> SextetsToBytes([i \in 1..Len(s) |-> B64Value(s[i])])]

\* server.ts line 53, Buffer.toString("base64"): the padded base64 of bytes
RECURSIVE ToBase64(_)
ToBase64(bytes) ==
  IF Len(bytes) = 0 THEN <<>>
  ELSE IF Len(bytes) = 1 THEN
    << B64Alphabet[bytes[1] \div 4 + 1],
       B64Alphabet[(bytes[1] % 4) * 16 + 1], "=", "=" >>
  ELSE IF Len(bytes) = 2 THEN
    LET n == bytes[1] * 256 + bytes[2]
    IN  << B64Alphabet[n \div 1024 + 1],
           B64Alphabet[((n \div 16) % 64) + 1],
           B64Alphabet[(n % 16) * 4 + 1], "=" >>
  ELSE
    LET n == bytes[1] * 65536 + bytes[2] * 256 + bytes[3]
    IN  << B64Alphabet[n \div 262144 + 1],
           B64Alphabet[((n \div 4096) % 64) + 1],
           B64Alphabet[((n \div 64) % 64) + 1],
           B64Alphabet[(n % 64) + 1] >>
          \o ToBase64(SubSeq(bytes, 4, Len(bytes)))

\* --------------------------------------------- Int16Array / Float32Array
\* mutant of line 91: the bytes are read as a Uint16Array
Int16At_Unsigned(bytes, i) == bytes[2 * i + 1] + 256 * bytes[2 * i + 2]

\* element i (from 0) of new Int16Array(bytes.buffer), little-endian
Int16At(bytes, i) ==
  LET u == bytes[2 * i + 1] + 256 * bytes[2 * i + 2]
  IN  IF u >= 32768 THEN u - 65536 ELSE u

PCMDivisor == 32768

\* lines 84-96 of playPCMAudio: the decoded samples, each as the numerator
\* of int16Data[i] / 32768.0, or the error the decode throws
DecodePCM(base64Data) ==
  LET bin == Atob(base64Data)
  IN  IF ~bin.ok THEN [ok |-> FALSE, err |-> "InvalidCharacterError", samples |-> <<>>]
      ELSE IF Len(bin.bytes) % 2 # 0
           THEN [ok |-> FALSE, err |-> "RangeError", samples |-> <<>>]
           ELSE [ok |-> TRUE, err |-> "",
                 samples |-> [i \in 1..(Len(bin.bytes) \div 2) |->
                                Int16At(bin.bytes, i - 1)]]

\* ------------------------------------------------------------ App.tsx data
\* SUPPORTED_LANGUAGES: the fields the pipeline reads
SUPPORTED_LANGUAGES ==
  [ ca |-> [code |-> "ca-ES", voice |-> "Kore",
            errorMsg |-> <<"No s'ha detectat cap text a la imatge. Torna-ho a provar.">>],
    es |-> [code |-> "es-ES", voice |-> "Kore",
            errorMsg |-> <<"No se ha detectado texto en la imagen. Intentalo de nuevo.">>],
    en |-> [code |-> "en-US", voice |-> "Puck",
            errorMsg |-> <<"No text detected in the image. Please try again.">>],
    fr |-> [code |-> "fr-FR", voice |-> "Fenrir",
            errorMsg |-> <<"Aucun texte detecte dans l'image. Veuillez reessayer.">>] ]

\* line 152: the message of the catch block
GenericMsg(lang) ==
  IF lang = "ca" THEN <<"S'ha produit un error.">> ELSE <<"An error occurred.">>

\* the two hidden file inputs
Inputs == {"camera", "gallery"}

\* ------------------------------------------------------------------ inputs
\* languages the user picks in the selector
LangChoices == {"ca", "es"}

NO_TEXT_FOUND == <<"N","O","_","T","E","X","T","_","F","O","U","N","D">>

\* what genAI.models.generateContent answers to the OCR request: it throws,
\* or result.text is undefined (Null) or a string
OcrResponses ==
  { [threw |-> TRUE, text |-> Null] } \cup
  { [threw |-> FALSE, text |-> t] :
      t \in { Null, <<" ", "\n">>, <<" ">> \o NO_TEXT_FOUND \o <<"\n">>,
              <<" ", "H", "i", "\n">>, <<"O", "k">> } }

\* what it answers to the TTS request: it throws, or inlineData.data is
\* undefined (Null) or a string
TtsResponses ==
  { [threw |-> TRUE, data |-> Null] } \cup
  { [threw |-> FALSE, data |-> d] :
      d \in { Null, <<>>,
              <<"A","A","A","A","g","A","=","=">>,    \* bytes 00 00 00 80
              <<"A","A","=","=">>,                    \* one byte
              <<"A">>,                                \* not base64
              <<"\n">> } }                            \* no bytes at all

\* the byte values tried
ByteChoices == {0, 1, 127, 128, 255}

\* the byte sequences of at most n bytes
ByteSeqs(n) == UNION { [1..k -> ByteChoices] : k \in 0..n }

\* ------------------------------------------------------------------- state
VARIABLES
  selectedLang,   \* useState selectedLang
  isProcessing,   \* useState isProcessing
  error,          \* useState error
  lastText,       \* useState lastText
  audioData,      \* useState audioData
  audioCtx,       \* audioContextRef.current is set
  sounding,       \* buffer sources started and still sounding
  utterances,     \* window.speechSynthesis: utterances speaking or pending
  hasSpeech,      \* the host has window.speechSynthesis
  picker,         \* per file input: its file chooser is open
  runs,           \* bag of processImage invocations: position and locals
  replayLog,      \* the calls of the replayAudio invocation that is just returning
  replayThrown,   \* the exception that invocation throws to its caller ("" for none)
  audioText,      \* the ocrResult.text whose synthesis audioData holds
  cancelled,      \* utterances that cancel() removed in the handler just returning
  pcmBytes,       \* decoder alone: the bytes of a PCM payload
  float32Data,    \* decoder alone: what lines 84-96 make of them
  apiKey,         \* server: process.env.ELEVENLABS_API_KEY is set
  requests        \* server: the POST /api/tts/elevenlabs requests and their handlers

\* the state of the page
app == << selectedLang, isProcessing, error, lastText, audioData, audioCtx,
          sounding, utterances, hasSpeech, picker, runs, replayLog,
          replayThrown, audioText, cancelled >>

\* the state the page does not touch
aux == << pcmBytes, float32Data, apiKey, requests >>

vars == << app, aux >>

\* float32Data before the decoder has run
NotDecoded == [ok |-> FALSE, err |-> "not decoded", samples |-> <<>>]

Ev(op, arg) == [op |-> op, arg |-> arg]

\* a processImage invocation at its first await (lines 111-126); lang and
\* lastText are the selectedLang and lastText its closure holds
NewRun(lang, closureText) ==
  [pc |-> "reading", lang |-> lang, lastText |-> closureText, text |-> Null,
   error |-> "", audio |-> Null, log |-> <<>>, uncaught |-> FALSE,
   escaped |-> FALSE]

\* the browser and React state a handler works on, with the calls it has
\* made (log) and the exception propagating out of it (thrown, "" for none)
Browser(log) ==
  [ctx |-> audioCtx, sounding |-> sounding, utterances |-> utterances,
   error |-> error, cancelled |-> 0,
   log |-> log, thrown |-> ""]

\* ------------------------------------------------------------- speakStatus
\* mutant of line 69: the new utterance is queued without cancel()
SpeakStatus_NoCancel(b, text) ==
  IF hasSpeech
  THEN [b EXCEPT !.utterances = @ + 1, !.log = Append(@, Ev("speak", text))]
  ELSE [b EXCEPT !.log = Append(@, Ev("speak", text)), !.thrown = "TypeError"]

\* lines 68-74: cancel, then speak the new utterance; without
\* window.speechSynthesis the call of cancel() throws a TypeError
SpeakStatus(b, text) ==
  IF hasSpeech
  THEN [b EXCEPT !.cancelled = @ + b.utterances,
                 !.utterances = 1, !.log = Append(@, Ev("speak", text))]
  ELSE [b EXCEPT !.log = Append(@, Ev("speak", text)), !.thrown = "TypeError"]

\* ------------------------------------------------------------ playPCMAudio
\* mutant of lines 79-81: the context is created on every call
PlayPCMTry_AlwaysCreates(b, base64Data, createOk) ==
  LET b1  == [b EXCEPT !.log = Append(@, Ev("AudioContext", <<>>)),
                       !.ctx = createOk,
                       !.thrown = IF createOk THEN "" ELSE "AudioContextError"]
      pcm == DecodePCM(base64Data)
      b2  == [b1 EXCEPT !.log = Append(@, Ev("atob", base64Data)),
                        !.thrown = pcm.err]
      b3  == IF Len(pcm.samples) = 0
             THEN [b2 EXCEPT !.log = Append(@, Ev("createBuffer", <<>>)),
                             !.thrown = "NotSupportedError"]
             ELSE [b2 EXCEPT !.log = @ \o << Ev("createBuffer", <<>>),
                                            Ev("start", base64Data) >>,
                             !.sounding = @ + 1]
  IN  IF b1.thrown # "" THEN b1
      ELSE IF b2.thrown # "" THEN b2
      ELSE b3

\* lines 79-104, the try block; createOk: new AudioContext(...) succeeds.
\* createBuffer throws NotSupportedError for a length of 0.
PlayPCMTry(b, base64Data, createOk) ==
  LET b1  == IF b.ctx THEN b
             ELSE [b EXCEPT !.log = Append(@, Ev("AudioContext", <<>>)),
                            !.ctx = createOk,
                            !.thrown = IF createOk THEN "" ELSE "AudioContextError"]
      pcm == DecodePCM(base64Data)
      b2  == [b1 EXCEPT !.log = Append(@, Ev("atob", base64Data)),
                        !.thrown = pcm.err]
      b3  == IF Len(pcm.samples) = 0
             THEN [b2 EXCEPT !.log = Append(@, Ev("createBuffer", <<>>)),
                             !.thrown = "NotSupportedError"]
             ELSE [b2 EXCEPT !.log = @ \o << Ev("createBuffer", <<>>),
                                            Ev("start", base64Data) >>,
                             !.sounding = @ + 1]
  IN  IF b1.thrown # "" THEN b1
      ELSE IF b2.thrown # "" THEN b2
      ELSE b3

\* lines 105-108, the catch block; closureText is the lastText the closure
\* of playPCMAudio holds
PlayPCMCatch(b, closureText) ==
  LET b1 == [b EXCEPT !.log = Append(@, Ev("console.error",
                                 <<"Error reproduint PCM:", b.thrown>>)),
                      !.thrown = ""]
  IN  IF Truthy(closureText) THEN SpeakStatus(b1, closureText) ELSE b1

\* lines 77-109
PlayPCMAudio(b, base64Data, closureText, createOk) ==
  LET t == PlayPCMTry(b, base64Data, createOk)
  IN  IF t.thrown # "" THEN PlayPCMCatch(t, closureText) ELSE t

\* ----------------------------------------------------------- GeminiService
\* extractText, lines 18-44
ExtractText(resp) ==
  IF resp.threw THEN [text |-> <<>>, error |-> "API_ERROR"]
  ELSE LET trimmed == IF resp.text = Null THEN Null ELSE Trim(resp.text)
           text    == IF Truthy(trimmed) THEN trimmed ELSE <<>>
       IN  IF text = NO_TEXT_FOUND \/ ~Truthy(text)
           THEN [text |-> <<>>, error |-> "NO_TEXT_FOUND"]
           ELSE [text |-> text, error |-> ""]

\* generateSpeech, lines 49-69
GenerateSpeech(resp) ==
  IF resp.threw THEN Null
  ELSE IF Truthy(resp.data) THEN resp.data ELSE Null

\* ------------------------------------------------------------ processImage
\* mutant of line 131: only API_ERROR counts as a failed recognition
RecognitionFailed_OnlyApiError(ocrResult) == ocrResult.error = "API_ERROR"

\* line 131
RecognitionFailed(ocrResult) == ocrResult.error # "" \/ ~Truthy(ocrResult.text)

\* mutant of line 143: the test reads the audioData state of the closure,
\* which processImage has just set to null, instead of base64Audio
HasPayload_StaleState(base64Audio) == Truthy(Null)

\* line 143
HasPayload(base64Audio) == Truthy(base64Audio)

\* mutant of line 147: the announcement reads the lastText of the closure
AnnounceRecognized_ClosureText(b, run) == SpeakStatus(b, run.lastText)

\* line 147
AnnounceRecognized(b, run) == SpeakStatus(b, run.text)

\* lines 150-154, the catch block of processImage
ProcessCatch(b, lang) ==
  LET b1 == [b EXCEPT !.log = Append(@, Ev("console.error", <<b.thrown>>)),
                      !.thrown = "",
                      !.error = GenericMsg(lang)]
  IN  SpeakStatus(b1, GenericMsg(lang))

\* lines 132-133 under the try/catch: the recognition error branch
RecognitionErrorBranch(b, lang) ==
  LET b1 == SpeakStatus([b EXCEPT !.error = SUPPORTED_LANGUAGES[lang].errorMsg],
                        SUPPORTED_LANGUAGES[lang].errorMsg)
  IN  IF b1.thrown # "" THEN ProcessCatch(b1, lang) ELSE b1

\* mutant of lines 143-148: the else is missing, the text is announced
\* after the playback call as well
AfterSynthesis_NoElse(b, run, base64Audio, createOk) ==
  LET b1 == IF HasPayload(base64Audio)
            THEN PlayPCMAudio(b, base64Audio, run.lastText, createOk)
            ELSE b
      b2 == IF b1.thrown # "" THEN b1 ELSE AnnounceRecognized(b1, run)
  IN  IF b2.thrown # "" THEN ProcessCatch(b2, run.lang) ELSE b2

\* lines 143-154: what follows the answer of generateSpeech
AfterSynthesis(b, run, base64Audio, createOk) ==
  LET b1 == IF HasPayload(base64Audio)
            THEN PlayPCMAudio(b, base64Audio, run.lastText, createOk)
            ELSE AnnounceRecognized(b, run)
  IN  IF b1.thrown # "" THEN ProcessCatch(b1, run.lang) ELSE b1

\* mutant of lines 165-171: the stored text is tested before the payload
ReplayAudio_TextFirst(b, createOk) ==
  IF Truthy(lastText) THEN SpeakStatus(b, lastText)
  ELSE IF Truthy(audioData) THEN PlayPCMAudio(b, audioData, lastText, createOk)
  ELSE b

\* ------------------------------------------------------------- replayAudio
\* lines 165-171
ReplayAudio(b, createOk) ==
  IF Truthy(audioData) THEN PlayPCMAudio(b, audioData, lastText, createOk)
  ELSE IF Truthy(lastText) THEN SpeakStatus(b, lastText)
  ELSE b

\* the browser state a handler leaves behind
Commit(b) ==
  /\ audioCtx' = b.ctx
  /\ sounding' = b.sounding
  /\ utterances' = b.utterances
  /\ error' = b.error
  /\ cancelled' = b.cancelled

\* the invocations that have not returned
InFlight(rs) == [run \in {x \in DOMAIN rs : x.pc # "done"} |-> rs[run]]

\* one invocation moves on
Step(rs, old, new) == (rs (-) SetToBag({old})) (+) SetToBag({new})

\* file choosers open, invocations not returned, buffer sources sounding
Active ==
  Cardinality({i \in Inputs : picker[i]}) + BagCardinality(InFlight(runs)) + sounding

\* line 80: new AudioContext(...) succeeds or throws; it is called only
\* while audioContextRef.current is not set
CreateOutcomes == IF audioCtx THEN {TRUE} ELSE BOOLEAN

\* no handler has just returned
Settled == replayLog = <<>> /\ \A run \in DOMAIN runs : run.pc # "done"

\* ----------------------------------------------------------------- actions
\* line 183: the language selector
SelectLanguage(l) ==
  /\ Settled
  /\ UNCHANGED aux
  /\ l # selectedLang
  /\ selectedLang' = l
  /\ UNCHANGED << isProcessing, error, lastText, audioData, audioText,
                  audioCtx, sounding, utterances, cancelled, hasSpeech,
                  picker, runs, replayLog, replayThrown >>

\* lines 196-198 and 214-216: a capture button, enabled while not
\* processing, opens the file chooser of its input
ClickCapture(i) ==
  /\ Settled
  /\ UNCHANGED aux
  /\ ~isProcessing
  /\ ~picker[i]
  /\ Active < MaxActive
  /\ picker' = [picker EXCEPT ![i] = TRUE]
  /\ UNCHANGED << selectedLang, isProcessing, error, lastText, audioData,
                  audioText, audioCtx, sounding, utterances, cancelled,
                  hasSpeech, runs, replayLog, replayThrown >>

\* lines 160-163 with no file chosen: handleFileChange does nothing
DismissPicker(i) ==
  /\ Settled
  /\ UNCHANGED aux
  /\ picker[i]
  /\ picker' = [picker EXCEPT ![i] = FALSE]
  /\ UNCHANGED << selectedLang, isProcessing, error, lastText, audioData,
                  audioText, audioCtx, sounding, utterances, cancelled,
                  hasSpeech, runs, replayLog, replayThrown >>

\* lines 160-163 and 111-126: a file is chosen; processImage runs up to its
\* first await.  The run keeps the selectedLang and lastText of the render
\* its handler belongs to.
FileChange(i) ==
  /\ Settled
  /\ UNCHANGED aux
  /\ picker[i]
  /\ picker' = [picker EXCEPT ![i] = FALSE]
  /\ runs' = runs (+) SetToBag({NewRun(selectedLang, lastText)})
  /\ isProcessing' = TRUE
  /\ error' = Null
  /\ lastText' = Null
  /\ audioData' = Null
  /\ audioText' = Null
  /\ UNCHANGED << selectedLang, audioCtx, sounding, utterances, cancelled,
                  hasSpeech, replayLog, replayThrown >>

\* lines 121-124: onloadend with a data URL resolves the promise
ReaderLoaded(run) ==
  /\ Settled
  /\ UNCHANGED aux
  /\ run.pc = "reading"
  /\ runs' = Step(runs, run, [run EXCEPT !.pc = "recognizing"])
  /\ UNCHANGED << selectedLang, isProcessing, error, lastText, audioData,
                  audioText, audioCtx, sounding, utterances, cancelled,
                  hasSpeech, picker, replayLog, replayThrown >>

\* lines 121-124: onloadend after a failed read, reader.result is null:
\* the callback throws a TypeError and resolve is never called, so the
\* invocation stays at its first await and uses its closure no more
ReaderFailed(run) ==
  /\ Settled
  /\ UNCHANGED aux
  /\ run.pc = "reading"
  /\ runs' = Step(runs, run, [NewRun("ca", Null) EXCEPT !.pc = "hung",
                                                       !.uncaught = TRUE])
  /\ UNCHANGED << selectedLang, isProcessing, error, lastText, audioData,
                  audioText, audioCtx, sounding, utterances, cancelled,
                  hasSpeech, picker, replayLog, replayThrown >>

\* lines 129-141: extractText answers; on a recognition error the run ends
\* (lines 131-136, 150-157), otherwise generateSpeech is called
ExtractTextReturns(run) ==
  /\ Settled
  /\ UNCHANGED aux
  /\ run.pc = "recognizing"
  /\ \E ocrResult \in {ExtractText(resp) : resp \in OcrResponses} :
       IF RecognitionFailed(ocrResult)
       THEN LET b == RecognitionErrorBranch(Browser(run.log), run.lang)
            IN  /\ Commit(b)
                /\ isProcessing' = FALSE
                /\ runs' = Step(runs, run,
                                [run EXCEPT !.pc = "done",
                                            !.text = ocrResult.text,
                                            !.error = ocrResult.error,
                                            !.log = b.log,
                                            !.escaped = (b.thrown # "")])
                /\ UNCHANGED lastText
       ELSE /\ lastText' = ocrResult.text
            /\ runs' = Step(runs, run,
                            [run EXCEPT !.pc = "synthesizing",
                                        !.text = ocrResult.text,
                                        !.error = ocrResult.error,
                                        !.log = Append(@, Ev("generateSpeech",
                                                             ocrResult.text))])
            /\ UNCHANGED << isProcessing, error, audioCtx, sounding,
                            utterances, cancelled >>
  /\ UNCHANGED << selectedLang, audioData, audioText, hasSpeech, picker,
                  replayLog, replayThrown >>

\* lines 141-157: generateSpeech answers; play or announce, then finally
GenerateSpeechReturns(run) ==
  /\ Settled
  /\ UNCHANGED aux
  /\ run.pc = "synthesizing"
  /\ \E base64Audio \in {GenerateSpeech(resp) : resp \in TtsResponses},
        createOk \in CreateOutcomes :
       LET b == AfterSynthesis(Browser(run.log), run, base64Audio, createOk)
       IN  /\ Commit(b)
           /\ audioData' = IF HasPayload(base64Audio) THEN base64Audio ELSE audioData
           /\ audioText' = IF HasPayload(base64Audio) THEN run.text ELSE audioText
           /\ isProcessing' = FALSE
           /\ runs' = Step(runs, run,
                           [run EXCEPT !.pc = "done", !.audio = base64Audio,
                                       !.log = b.log,
                                       !.escaped = (b.thrown # "")])
  /\ UNCHANGED << selectedLang, lastText, hasSpeech, picker, replayLog,
                  replayThrown >>

\* lines 225-228 and 165-171: the replay button, enabled while not
\* processing and with something stored, calls replayAudio
Replay ==
  /\ Settled
  /\ UNCHANGED aux
  /\ ~(isProcessing \/ (~Truthy(audioData) /\ ~Truthy(lastText)))
  /\ Active < MaxActive
  /\ \E createOk \in CreateOutcomes :
       LET b == ReplayAudio(Browser(<<>>), createOk)
       IN  /\ Commit(b)
           /\ replayLog' = b.log
           /\ replayThrown' = b.thrown
  /\ UNCHANGED << selectedLang, isProcessing, lastText, audioData, audioText,
                  hasSpeech, picker, runs >>

\* the handler that just ran has returned: its locals and the record of its
\* calls are dropped
HandlerReturned ==
  /\ ~Settled
  /\ UNCHANGED aux
  /\ runs' = InFlight(runs)
  /\ replayLog' = <<>>
  /\ replayThrown' = ""
  /\ cancelled' = 0
  /\ UNCHANGED << selectedLang, isProcessing, error, lastText, audioData,
                  audioText, audioCtx, sounding, utterances, hasSpeech,
                  picker >>

\* a buffer source plays to its end
PlaybackEnded ==
  /\ Settled
  /\ UNCHANGED aux
  /\ sounding > 0
  /\ sounding' = sounding - 1
  /\ UNCHANGED << selectedLang, isProcessing, error, lastText, audioData,
                  audioText, audioCtx, utterances, cancelled, hasSpeech,
                  picker, runs, replayLog, replayThrown >>

\* the utterance being spoken ends
UtteranceEnded ==
  /\ Settled
  /\ UNCHANGED aux
  /\ utterances > 0
  /\ utterances' = utterances - 1
  /\ UNCHANGED << cancelled, selectedLang, isProcessing, error, lastText,
                  audioData, audioText, audioCtx, sounding, hasSpeech, picker,
                  runs, replayLog, replayThrown >>

\* lines 56-63: the page as it is first rendered
AppInit ==
  /\ selectedLang = "ca"
  /\ isProcessing = FALSE
  /\ error = Null
  /\ lastText = Null
  /\ audioData = Null
  /\ audioCtx = FALSE
  /\ sounding = 0
  /\ utterances = 0
  /\ hasSpeech \in BOOLEAN
  /\ picker = [i \in Inputs |-> FALSE]
  /\ runs = EmptyBag
  /\ replayLog = <<>>
  /\ replayThrown = ""
  /\ audioText = Null
  /\ cancelled = 0

\* the decoder alone and the server, not in use
AuxIdle ==
  /\ pcmBytes = <<>>
  /\ float32Data = NotDecoded
  /\ apiKey = FALSE
  /\ requests = <<>>

Init == AppInit /\ AuxIdle

Next ==
  \/ \E l \in LangChoices : SelectLanguage(l)
  \/ \E i \in Inputs : ClickCapture(i)
  \/ \E i \in Inputs : DismissPicker(i)
  \/ \E i \in Inputs : FileChange(i)
  \/ \E run \in DOMAIN runs : ReaderLoaded(run)
  \/ \E run \in DOMAIN runs : ReaderFailed(run)
  \/ \E run \in DOMAIN runs : ExtractTextReturns(run)
  \/ \E run \in DOMAIN runs : GenerateSpeechReturns(run)
  \/ Replay
  \/ HandlerReturned
  \/ PlaybackEnded
  \/ UtteranceEnded

Spec == Init /\ [][Next]_vars

\* ------------------------------------------------------- the decoder alone
\* lines 84-96 of playPCMAudio applied to the base64 of a byte sequence
DecodePayload ==
  /\ float32Data = NotDecoded
  /\ float32Data' = DecodePCM(ToBase64(pcmBytes))
  /\ UNCHANGED << app, pcmBytes, apiKey, requests >>

InitDecode ==
  /\ AppInit
  /\ hasSpeech
  /\ pcmBytes \in ByteSeqs(MaxBytes)
  /\ float32Data = NotDecoded
  /\ apiKey = FALSE
  /\ requests = <<>>

NextDecode == DecodePayload

SpecDecode == InitDecode /\ [][NextDecode]_vars

\* --------------------------------------------- server.ts: /api/tts/elevenlabs
\* a JSON object with one member
Json(key, value) == << key, value >>

\* res.status(status).json(body)
Response(status, body) == [status |-> status, body |-> body]

\* line 22
NotConfigured ==
  Response(500, Json("error", <<"ElevenLabs API Key not configured">>))

\* line 58
FailedToGenerate ==
  Response(500, Json("error", <<"Failed to generate audio">>))

\* req.body.text: absent or a string
RequestTexts == { Null, <<"O", "k">> }

\* response.status of an answer of the provider that is not OK
ErrorStatuses == { 401, 429 }

\* a body that cannot be read: response.json() or response.arrayBuffer() throws
Unreadable == Json("unreadable", <<>>)

\* what response.json() gives for a provider error
ErrorBodies ==
  { Json("detail", <<"invalid_api_key">>), Json("detail", <<"quota_exceeded">>),
    Unreadable }

\* what response.arrayBuffer() gives for an OK answer
AudioBodies ==
  { Json("bytes", b) : b \in { <<>>, <<1>>, <<0, 0, 0, 128>> } } \cup { Unreadable }

\* mutant of lines 21-23: the return is missing, the handler goes on after
\* it has answered
HandlerEntry_NoReturn(text, key) ==
  [pc |-> "fetching", text |-> text, key |-> key,
   provider |-> "none", status |-> 0, body |-> Unreadable,
   responses |-> IF key THEN <<>> ELSE << NotConfigured >>, fetches |-> 1]

\* lines 16-43: the handler up to its first await
HandlerEntry(text, key) ==
  IF ~key
  THEN [pc |-> "done", text |-> text, key |-> key,
        provider |-> "none", status |-> 0, body |-> Unreadable,
        responses |-> << NotConfigured >>, fetches |-> 0]
  ELSE [pc |-> "fetching", text |-> text, key |-> key,
        provider |-> "none", status |-> 0, body |-> Unreadable,
        responses |-> <<>>, fetches |-> 1]

\* res.json(...) and the end of the handler
Respond(r, response) ==
  [r EXCEPT !.pc = "done", !.responses = Append(@, response)]

\* lines 56-59, the catch block
ServerCatch(r) == Respond(r, FailedToGenerate)

\* a client posts to /api/tts/elevenlabs
PostRequest(text) ==
  /\ Len(requests) < MaxRequests
  /\ requests' = Append(requests, HandlerEntry(text, apiKey))
  /\ UNCHANGED << app, pcmBytes, float32Data, apiKey >>

\* lines 26-45: the fetch rejects, or resolves with a response
FetchSettles(k) ==
  /\ requests[k].pc = "fetching"
  /\ \/ requests' = [requests EXCEPT
                        ![k] = ServerCatch([@ EXCEPT !.provider = "threw"])]
     \/ \E status \in ErrorStatuses :
          requests' = [requests EXCEPT
                         ![k] = [@ EXCEPT !.pc = "errorBody", !.provider = "nonOK",
                                          !.status = status]]
     \/ requests' = [requests EXCEPT
                        ![k] = [@ EXCEPT !.pc = "okBody", !.provider = "ok",
                                         !.status = 200]]
  /\ UNCHANGED << app, pcmBytes, float32Data, apiKey >>

\* lines 46-48: response.json() of the provider's error settles
ErrorBodyRead(k) ==
  /\ requests[k].pc = "errorBody"
  /\ \E errorData \in ErrorBodies :
       LET r == [requests[k] EXCEPT !.body = errorData]
       IN  requests' = [requests EXCEPT
                          ![k] = IF errorData = Unreadable THEN ServerCatch(r)
                                 ELSE Respond(r, Response(r.status, errorData))]
  /\ UNCHANGED << app, pcmBytes, float32Data, apiKey >>

\* lines 51-55: response.arrayBuffer() settles
ArrayBufferRead(k) ==
  /\ requests[k].pc = "okBody"
  /\ \E arrayBuffer \in AudioBodies :
       LET r == [requests[k] EXCEPT !.body = arrayBuffer]
       IN  requests' = [requests EXCEPT
                          ![k] = IF arrayBuffer = Unreadable THEN ServerCatch(r)
                                 ELSE Respond(r, Response(200,
                                        Json("audioData", ToBase64(arrayBuffer[2]))))]
  /\ UNCHANGED << app, pcmBytes, float32Data, apiKey >>

InitServer ==
  /\ AppInit
  /\ hasSpeech
  /\ pcmBytes = <<>>
  /\ float32Data = NotDecoded
  /\ apiKey \in BOOLEAN
  /\ requests = <<>>

NextServer ==
  \/ \E text \in RequestTexts : PostRequest(text)
  \/ \E k \in DOMAIN requests : FetchSettles(k)
  \/ \E k \in DOMAIN requests : ErrorBodyRead(k)
  \/ \E k \in DOMAIN requests : ArrayBufferRead(k)

SpecServer == InitServer /\ [][NextServer]_vars

\* ------------------------------------------------------------------ claims
HasOp(log, op) == \E i \in DOMAIN log : log[i].op = op

Called(log, op, arg) == \E i \in DOMAIN log : log[i] = Ev(op, arg)

Speaks(log) == SelectSeq(log, LAMBDA e : e.op = "speak")

\* the run made no call of the Audio Decoder / Playback Engine
NoPlaybackCalls(log) ==
  \A i \in DOMAIN log : log[i].op \notin {"AudioContext", "atob", "createBuffer", "start"}

\* C1: single-flight: in every reachable state at most one processImage
\* invocation has started and not yet returned.
C1_SingleFlight == BagCardinality(InFlight(runs)) <= 1

\* C2: a run whose recognition succeeded either starts a playback or
\* announces the text recognized in that same run; in particular when a
\* payload was returned and no playback could be started, the announcer is
\* called with that run's text.
C2_FallbackAnnouncesRecognizedText ==
  \A run \in DOMAIN runs :
    (run.pc = "done" /\ Truthy(run.text)) =>
      /\ HasOp(run.log, "start") \/ Called(run.log, "speak", run.text)
      /\ (Truthy(run.audio) /\ ~HasOp(run.log, "start"))
           => Called(run.log, "speak", run.text)

\* C3: a run whose recognition result carries an error marker or empty text
\* never calls generateSpeech, nor the decoder or the playback engine.
C3_NoSynthesisAfterFailedRecognition ==
  \A run \in DOMAIN runs :
    (run.error # "" \/ run.text = <<>>) =>
      /\ ~HasOp(run.log, "generateSpeech")
      /\ NoPlaybackCalls(run.log)

C3_Witness ==
  \E run \in DOMAIN runs :
    /\ run.pc = "done"
    /\ run.error = "NO_TEXT_FOUND"
    /\ Called(run.log, "speak", SUPPORTED_LANGUAGES[run.lang].errorMsg)

\* C4: a run that recognized a non-empty text T and got no payload from
\* synthesis calls the announcer with exactly T (and, where the host can
\* speak, with nothing else) and makes no call of the playback engine.
C4_NoPayloadAnnouncesText ==
  \A run \in DOMAIN runs :
    (run.pc = "done" /\ Truthy(run.text) /\ ~Truthy(run.audio)) =>
      /\ Speaks(run.log) # <<>>
      /\ Speaks(run.log)[1].arg = run.text
      /\ hasSpeech => Len(Speaks(run.log)) = 1
      /\ NoPlaybackCalls(run.log)

C4_Witness ==
  \E run \in DOMAIN runs :
    /\ run.pc = "done" /\ Truthy(run.text) /\ ~Truthy(run.audio)
    /\ hasSpeech
    /\ Called(run.log, "speak", run.text)

\* new AudioContext(...) did not fail in the calls of this log
WorkingAudio(log) ==
  ~Called(log, "console.error", <<"Error reproduint PCM:", "AudioContextError">>)

\* the payload was decoded and after that its playback was started
DecodedThenStarted(log, payload) ==
  \E i, j \in DOMAIN log :
    i < j /\ log[i] = Ev("atob", payload) /\ log[j] = Ev("start", payload)

\* C5 as stated: with recognized text, a decodable even-length payload and a
\* working audio output, the run decodes, then starts playback, and does not
\* call the announcer.
C5_ValidPayloadIsPlayed ==
  \A run \in DOMAIN runs :
    ( /\ run.pc = "done" /\ Truthy(run.text) /\ Truthy(run.audio)
      /\ DecodePCM(run.audio).ok
      /\ WorkingAudio(run.log) ) =>
      /\ DecodedThenStarted(run.log, run.audio)
      /\ Speaks(run.log) = <<>>

\* C5 amended: the same for a payload that holds at least one sample.
C5_NonEmptyValidPayloadIsPlayed ==
  \A run \in DOMAIN runs :
    ( /\ run.pc = "done" /\ Truthy(run.text) /\ Truthy(run.audio)
      /\ DecodePCM(run.audio).ok
      /\ Len(DecodePCM(run.audio).samples) > 0
      /\ WorkingAudio(run.log) ) =>
      /\ DecodedThenStarted(run.log, run.audio)
      /\ Speaks(run.log) = <<>>

C5_Witness ==
  \E run \in DOMAIN runs :
    /\ run.pc = "done" /\ Truthy(run.text)
    /\ DecodePCM(run.audio).ok /\ Len(DecodePCM(run.audio).samples) > 0
    /\ DecodedThenStarted(run.log, run.audio)

RunMoves(run) ==
  \/ ReaderLoaded(run)
  \/ ReaderFailed(run)
  \/ ExtractTextReturns(run)
  \/ GenerateSpeechReturns(run)

\* C7: every run that has started returns to IDLE: it has returned with the
\* in-progress flag cleared, or the external call it awaits can complete
\* and move it on.
C7_EveryRunReturnsToIdle ==
  \A run \in DOMAIN runs :
    IF run.pc = "done" THEN ~isProcessing
    ELSE Settled => ENABLED RunMoves(run)

\* the catch block of processImage ran
CaughtInProcessImage(log) ==
  \E i \in DOMAIN log : log[i].op = "console.error" /\ Len(log[i].arg) = 1

\* C8: no failure of any stage leaves processImage unhandled (thrown out of
\* it, or thrown in a callback it never hears of), and a failure it catches
\* sets the generic message, announces it and returns the session to IDLE.
C8_FailuresAreCaught ==
  \A run \in DOMAIN runs :
    /\ ~run.uncaught
    /\ ~run.escaped
    /\ (run.pc = "done" /\ CaughtInProcessImage(run.log)) =>
         /\ error = GenericMsg(run.lang)
         /\ Called(run.log, "speak", GenericMsg(run.lang))
         /\ ~isProcessing

\* C9: no two playbacks started by the orchestrator sound at once.
C9_NoOverlappingPlayback == sounding <= 1

\* the logs of the handlers in the state
Logs == {run.log : run \in DOMAIN runs} \cup {replayLog}

\* C10: a payload whose decoded byte length is odd starts no playback, and
\* its decode error is made known: the announcer is called after it (the
\* fallback) rather than the error being dropped.
C10_OddPayloadIsReportedDecodeError ==
  \A log \in Logs :
    \A i \in DOMAIN log :
      ( /\ log[i].op = "atob"
        /\ Atob(log[i].arg).ok
        /\ Len(Atob(log[i].arg).bytes) % 2 = 1 ) =>
        /\ ~HasOp(log, "start")
        /\ \E j \in DOMAIN log : j > i /\ log[j].op = "speak"

\* C11: for every even-length byte sequence B the decoder yields exactly
\* Len(B)/2 samples; sample i is v / 32768 where v is the signed 16-bit
\* integer whose low byte is B[2i] and high byte B[2i+1] (counting from 0),
\* so every sample lies in [-1, 1); the bytes 00 00 00 80 decode to 0, -1.
\* (float32Data.samples holds the numerators v; v / 32768 is exact in a
\* Float32.)
C11_DecodedSamples ==
  (float32Data # NotDecoded /\ Len(pcmBytes) % 2 = 0) =>
    /\ float32Data.ok
    /\ Len(float32Data.samples) * 2 = Len(pcmBytes)
    /\ \A i \in 1..Len(float32Data.samples) :
         LET v == float32Data.samples[i]
         IN  /\ v \in (0 - PCMDivisor)..(PCMDivisor - 1)
             /\ (v - (pcmBytes[2 * i - 1] + 256 * pcmBytes[2 * i])) % (2 * PCMDivisor) = 0
    /\ pcmBytes = <<0, 0, 0, 128>> =>
         float32Data.samples = <<0, 0 - PCMDivisor>>

C11_Witness ==
  /\ pcmBytes = <<0, 0, 0, 128>>
  /\ float32Data.ok
  /\ float32Data.samples = <<0, 0 - PCMDivisor>>

\* what a run may say: the text it recognized and the two messages of the
\* language it was started in
OwnAnnouncements(run) ==
  {run.text, SUPPORTED_LANGUAGES[run.lang].errorMsg, GenericMsg(run.lang)}

\* C12: a capture resets the session: while the only run in flight reads its
\* file, last text, last audio and last error are empty; and nothing of an
\* earlier capture is spoken or played as part of a run: every announcement
\* of a run is the text it recognized or a message of its language, and every
\* payload it decodes or plays is the one its own synthesis returned.
C12_NothingFromPreviousCapture ==
  \A run \in DOMAIN runs :
    /\ (run.pc = "reading" /\ BagCardinality(InFlight(runs)) = 1) =>
         (lastText = Null /\ audioData = Null /\ error = Null)
    /\ \A i \in DOMAIN run.log :
         /\ run.log[i].op = "speak" => run.log[i].arg \in OwnAnnouncements(run)
         /\ run.log[i].op \in {"atob", "start"} => run.log[i].arg = run.audio

\* C13: a run whose recognition failed (NO_TEXT_FOUND, API_ERROR or empty
\* text) has returned with the session in IDLE, last error set to the error
\* message of the run's language, that message announced exactly once, and
\* last text and last audio empty, so that a replay does nothing.
C13_FailedRecognitionEndsIdle ==
  \A run \in DOMAIN runs :
    (run.pc = "done" /\ RecognitionFailed([text |-> run.text, error |-> run.error])) =>
      /\ ~isProcessing
      /\ error = SUPPORTED_LANGUAGES[run.lang].errorMsg
      /\ Speaks(run.log) = << Ev("speak", SUPPORTED_LANGUAGES[run.lang].errorMsg) >>
      /\ lastText = Null
      /\ audioData = Null
      /\ \A createOk \in BOOLEAN :
           ReplayAudio(Browser(<<>>), createOk) = Browser(<<>>)

\* the announcer was called in the calls of this log
ReachedAnnouncer(log) == HasOp(log, "speak")

\* C14: on a host without speech capability a call of the announcer raises
\* nothing: a run that reaches the announcer returns with no exception
\* leaving processImage and without its catch block having set an error,
\* and a replay that reaches the announcer throws nothing to its caller.
C14_AnnouncerIsNoOpWithoutSpeech ==
  ~hasSpeech =>
    /\ \A run \in DOMAIN runs :
         (run.pc = "done" /\ ReachedAnnouncer(run.log)) =>
           /\ ~run.escaped
           /\ ~CaughtInProcessImage(run.log)
           /\ error # GenericMsg(run.lang)
    /\ ReachedAnnouncer(replayLog) => replayThrown = ""

\* a handler that has just returned called new AudioContext(...)
CreatedContext == \E log \in Logs : HasOp(log, "AudioContext")

\* a handler that has just returned called the decoder / playback engine
PlaybackCalled == \E log \in Logs : HasOp(log, "atob")

\* C15: the audio output context does not exist before the first playback;
\* it is created only by a playback call (its first step) and only while
\* none exists; once it exists every later playback uses it without
\* creating another, and it is never reset.
C15_ContextCreatedOnceAndKept ==
  /\ ~audioCtx
  /\ [][ /\ audioCtx => (audioCtx' /\ ~CreatedContext')
         /\ (~audioCtx /\ audioCtx') => CreatedContext'
         /\ (~audioCtx /\ PlaybackCalled') => CreatedContext'
         /\ \A log \in Logs' :
              \A i \in DOMAIN log :
                log[i].op = "AudioContext" =>
                  /\ \A j \in DOMAIN log : log[j].op = "AudioContext" => j = i
                  /\ audioCtx' => (i < Len(log) /\ log[i + 1].op = "atob")
       ]_vars

C15_Witness ==
  /\ audioCtx
  /\ \E log \in Logs : HasOp(log, "start") /\ ~HasOp(log, "AudioContext")

\* C16: every call of the announcer removes what was speaking or queued
\* before it starts the new utterance: at most one utterance of the
\* application is active, and when a handler that announced returns (on a
\* host that can speak) exactly its last utterance is.
C16_AtMostOneUtterance ==
  /\ utterances <= 1
  /\ (hasSpeech /\ \E log \in Logs : HasOp(log, "speak")) => utterances = 1

\* an announcement was made while an earlier utterance was still active
C16_Witness ==
  /\ cancelled > 0
  /\ utterances = 1
  /\ \E log \in Logs : HasOp(log, "speak")

\* the await a handler is at settles
ServerMoves(k) == FetchSettles(k) \/ ErrorBodyRead(k) \/ ArrayBufferRead(k)

\* C17: each request gets exactly one response: never two, one when its
\* handler has ended, and a handler that has not ended can go on.  Without
\* the credential: 500 with the error JSON and no call of the provider.
\* Provider not OK with a readable error body: the provider's status with
\* that body.  Provider OK with a readable body: {audioData: base64 of the
\* body}.  The fetch or the reading of a body throws: 500 with the error
\* JSON.
C17_OneResponsePerRequest ==
  \A k \in DOMAIN requests :
    LET r == requests[k]
    IN  /\ Len(r.responses) <= 1
        /\ r.fetches <= 1
        /\ IF r.pc = "done" THEN Len(r.responses) = 1
                            ELSE r.responses = <<>> /\ ENABLED ServerMoves(k)
        /\ ~r.key => /\ r.responses = << NotConfigured >>
                     /\ r.fetches = 0
        /\ (r.pc = "done" /\ r.key) =>
             r.responses =
               << CASE r.provider = "nonOK" /\ r.body # Unreadable ->
                         Response(r.status, r.body)
                    [] r.provider = "ok" /\ r.body # Unreadable ->
                         Response(200, Json("audioData", ToBase64(r.body[2])))
                    [] OTHER -> FailedToGenerate >>

C17_Witness ==
  \E k \in DOMAIN requests :
    /\ requests[k].provider = "ok"
    /\ requests[k].body = Json("bytes", <<0, 0, 0, 128>>)
    /\ requests[k].responses =
         << Response(200, Json("audioData", <<"A","A","A","A","g","A","=","=">>)) >>
    /\ \E j \in DOMAIN requests :
         requests[j].provider = "nonOK" /\ Len(requests[j].responses) = 1

\* C18: whenever the session holds an audio payload it also holds text, and
\* the payload is the synthesis of exactly that text.
C18_PayloadBelongsToText ==
  Truthy(audioData) => (Truthy(lastText) /\ audioText = lastText)

\* the capture buttons and the replay button as rendered (lines 198, 216, 227)
CaptureEnabled == ~isProcessing

ReplayEnabled == ~(isProcessing \/ (~Truthy(audioData) /\ ~Truthy(lastText)))

\* C19: the in-progress flag is set exactly while a processImage invocation
\* has started and not returned, so no run clears it while another is in
\* flight, and the capture and replay controls are enabled only with no run
\* in flight.
C19_FlagIffRunInFlight ==
  /\ isProcessing <=> (BagCardinality(InFlight(runs)) > 0)
  /\ (CaptureEnabled \/ ReplayEnabled) => BagCardinality(InFlight(runs)) = 0

\* the playbacks a log starts
Starts(log) == SelectSeq(log, LAMBDA e : e.op = "start")

\* what of a log is heard: the playbacks started and, on a host that can
\* speak, the announcements
Audible(log) == Len(Starts(log)) + (IF hasSpeech THEN Len(Speaks(log)) ELSE 0)

\* C20: a processImage run is heard at most once: it starts one playback or
\* makes one announcement, never both and never two announcements; no run
\* starts a playback and calls the announcer as well.
C20_AtMostOneAudibleOutput ==
  \A run \in DOMAIN runs :
    /\ Audible(run.log) <= 1
    /\ Starts(run.log) # <<>> => Speaks(run.log) = <<>>

\* a run that could not play its payload and announced instead, once
C20_Witness ==
  \E run \in DOMAIN runs :
    /\ run.pc = "done"
    /\ hasSpeech
    /\ HasOp(run.log, "atob")
    /\ Audible(run.log) = 1
    /\ Len(Speaks(run.log)) = 1

====
